---- MODULE Spec2Model ----
(***************************************************************************)
(* Model of the ALPHA policy-hardening pipeline: the staged-rollout        *)
(* controller (alpha_agent/rollout.py), the rollout Lambda handler, the    *)
(* command-line orchestrator (alpha_agent/orchestrator.py) and the Step    *)
(* Functions workflow (infra/lib/alpha_stack.py).                          *)
(*                                                                         *)
(* Error rates are floats in the source; here they are integers counted    *)
(* in millionths (0.02 is 20000, 0.019999 is 19999), which keeps the       *)
(* order of every value the model uses.                                    *)
(***************************************************************************)
EXTENDS Integers, Sequences, FiniteSets, TLC

VARIABLES now, rolePolicies, call, approvals, run, sfn, guard, diff,
          presets, invocation

vars == <<now, rolePolicies, call, approvals, run, sfn, guard, diff,
          presets, invocation>>

\* ------------------------------------------------------------------ bounds
\* largest value of int(time.time()) the model lets the clock reach
MaxClock == 2
\* largest number of approval records kept per proposal
MaxRecords == 2

\* --------------------------------------------------------------- constants
\* evaluate_stage thresholds, in millionths
SandboxThreshold == 50000
CanaryThreshold == 20000
TargetThreshold == 10000
\* metrics.get("error_rate", 0)
DefaultErrorRate == 0

\* RolloutStage values
Stages == {"dry-run", "sandbox", "canary", "target"}

\* role ARNs as their "/"-separated segments
RoleArns == {<<"arn:aws:iam::1:role", "app">>, <<"arn:aws:iam::1:role", "batch">>}

\* concurrent invocations of orchestrate_rollout the model keeps track of
Calls == {1, 2}

\* error rates a collector may report, in millionths
Rates == {0, 9999, 10000, 19999, 20000, 49999, 50000}

NoName == <<"none", 0>>
BaselinePolicy == <<"Baseline", 0>>

\* ----------------------------------------------------------- pure helpers
_role_name_from_arn(role_arn) == role_arn[Len(role_arn)]

RoleNames == {_role_name_from_arn(a) : a \in RoleArns}

\* f"ALPHAManaged{int(time.time())}"
policy_name_at(t) == <<"ALPHAManaged", t>>

\* a metrics dict is a set of <<key, value>> pairs with distinct keys
metrics_get(metrics, key, default) ==
    IF \E kv \in metrics : kv[1] = key
    THEN (CHOOSE kv \in metrics : kv[1] = key)[2]
    ELSE default

evaluate_stage_le(stage, metrics) ==
    LET error_rate == metrics_get(metrics, "error_rate", DefaultErrorRate)
    IN  IF stage = "sandbox" THEN error_rate <= SandboxThreshold
        ELSE IF stage = "canary" THEN error_rate <= CanaryThreshold
        ELSE IF stage = "target" THEN error_rate <= TargetThreshold
        ELSE TRUE

evaluate_stage(stage, metrics) ==
    LET error_rate == metrics_get(metrics, "error_rate", DefaultErrorRate)
    IN  IF stage = "sandbox" THEN error_rate < SandboxThreshold
        ELSE IF stage = "canary" THEN error_rate < CanaryThreshold
        ELSE IF stage = "target" THEN error_rate < TargetThreshold
        ELSE TRUE

\* RolloutOutcome(stage, succeeded, error, metrics); error "None" is None
RolloutOutcome(stage, succeeded, error, metrics) ==
    [stage |-> stage, succeeded |-> succeeded, error |-> error, metrics |-> metrics]

NoOutcome == RolloutOutcome("none", FALSE, "None", {})

\* how a call ends: it returns an outcome or raises an exception
Returned(outcome) == [kind |-> "returned", outcome |-> outcome, exc |-> "None"]
Raised(exc) == [kind |-> "raised", outcome |-> NoOutcome, exc |-> exc]
NoResult == [kind |-> "none", outcome |-> NoOutcome, exc |-> "None"]

\* what metrics_collector() did: returned a dict or raised
Collected(metrics) == [raised |-> FALSE, metrics |-> metrics]
CollectorRaised == [raised |-> TRUE, metrics |-> {}]

try_block_fail_open(stage, collected) ==
    LET metrics == IF collected.raised THEN {<<"error_rate", 0>>} ELSE collected.metrics
    IN  IF evaluate_stage(stage, metrics)
        THEN Returned(RolloutOutcome(stage, TRUE, "None", metrics))
        ELSE Returned(RolloutOutcome(stage, FALSE, "failed health checks", {}))

try_block_reraise(stage, collected) ==
    IF collected.raised
    THEN Returned(RolloutOutcome(stage, FALSE, "collector error", {}))
    ELSE IF evaluate_stage(stage, collected.metrics)
         THEN Returned(RolloutOutcome(stage, TRUE, "None", collected.metrics))
         ELSE Raised("RolloutError")

\* the try/except of orchestrate_rollout: what the call will return once
\* the finally clause has run
try_block(stage, collected) ==
    IF collected.raised
    THEN Returned(RolloutOutcome(stage, FALSE, "collector error", {}))
    ELSE IF evaluate_stage(stage, collected.metrics)
         THEN Returned(RolloutOutcome(stage, TRUE, "None", collected.metrics))
         ELSE Returned(RolloutOutcome(stage, FALSE, "failed health checks", {}))

\* CloudWatch get_metric_statistics as the Lambda's collector sees it
CloudWatchResponses ==
    {[kind |-> "error", datapoints |-> <<>>], [kind |-> "ok", datapoints |-> <<>>]}
    \cup {[kind |-> "ok", datapoints |-> <<r>>] : r \in Rates}

\* no CloudWatch query was made
NoCloudWatch == [kind |-> "none", datapoints |-> <<>>]

\* variant: a failing query is not caught
_collect_cloudwatch_metrics_raising(response) ==
    IF response.kind = "ok" /\ Len(response.datapoints) > 0
    THEN Collected({<<"error_rate", response.datapoints[1]>>})
    ELSE IF response.kind = "ok" THEN Collected({<<"error_rate", 0>>})
    ELSE CollectorRaised

\* _collect_cloudwatch_metrics: the first datapoint's average, 0.0 when
\* the query raised or answered without datapoints
_collect_cloudwatch_metrics(response) ==
    IF response.kind = "ok" /\ Len(response.datapoints) > 0
    THEN Collected({<<"error_rate", response.datapoints[1]>>})
    ELSE Collected({<<"error_rate", 0>>})

\* the collectors a caller can pass to orchestrate_rollout
ReturningCollectors ==
    {[kind |-> "returns", metrics |-> {<<"error_rate", r>>}] : r \in Rates}
    \cup {[kind |-> "returns", metrics |-> {}]}
RaisingCollector == [kind |-> "raises", metrics |-> {}]
CloudWatchCollector == [kind |-> "cloudwatch", metrics |-> {}]
NoCollector == [kind |-> "none", metrics |-> {}]

\* the response of the rollout Lambda; has_succeeded tells whether the
\* payload carries a "succeeded" key at all
Response(statusCode, has_succeeded, succeeded) ==
    [statusCode |-> statusCode, has_succeeded |-> has_succeeded, succeeded |-> succeeded]
NoResponse == Response(0, FALSE, FALSE)

handler_response(result) ==
    IF result.kind = "returned"
    THEN Response(200, TRUE, result.outcome.succeeded)
    ELSE Response(500, TRUE, FALSE)

\* ------------------------------------------------------------------- state
IdleCall ==
    [pc |-> "idle", caller |-> "none", role_arn |-> <<>>, stage |-> "none",
     collector |-> NoCollector, policy_name |-> NoName,
     collected |-> Collected({}), pending |-> NoResult,
     attach_ok |-> FALSE, detach_ok |-> FALSE,
     result |-> NoResult, response |-> NoResponse,
     log |-> <<>>, before |-> {}, peers |-> {}, cloudwatch |-> NoCloudWatch]

\* command-line options of orchestrator.run that decide its control flow
NoArgs ==
    [resource_arn |-> <<>>, approval_table |-> FALSE, slack_webhook |-> FALSE,
     rollout_stage |-> "None", metrics_json |-> FALSE, metrics_file |-> {}]

\* one invocation of orchestrator.run; lookup is what the approval gate
\* saw, exit is the status run returned (-1 while it runs)
IdleRun == [pc |-> "idle", args |-> NoArgs, lookup |-> "none", notified |-> FALSE,
            exit |-> -1]

\* the payload of the approval_checker Lambda; has_approved tells whether
\* it carries an "approved" key
ApprovalPayload(statusCode, has_approved, approved) ==
    [statusCode |-> statusCode, has_approved |-> has_approved, approved |-> approved]
NoApprovalPayload == ApprovalPayload(0, FALSE, FALSE)

\* one execution of the state machine: its current state, the role of
\* $.context.roleArn, the task results kept in the execution's data and
\* the tasks completed so far
IdleSfn ==
    [state |-> "idle", role_arn |-> <<>>, polls |-> 0,
     approvalStatus |-> NoApprovalPayload,
     sandboxOutcome |-> NoResponse, canaryOutcome |-> NoResponse,
     targetOutcome |-> NoResponse, history |-> <<>>]

\* no guardrail evaluation and no diff computation in progress
IdleGuard == [pc |-> "idle"]

IdleDiff == [pc |-> "idle"]

\* ---------------------------------------------------- guardrail presets
\* GUARDRAIL_PRESETS as written in cli/analyze.py and, with the same
\* content, in agentcore_entrypoint.py: lists of names and a dict of
\* conditions kept as a sequence of key/value entries
GUARDRAIL_PRESETS ==
    [none |->
        [blocked_actions |-> <<>>,
         required_conditions |-> <<>>,
         disallowed_services |-> <<>>],
     sandbox |->
        [blocked_actions |-> <<"iam:PassRole">>,
         required_conditions |-> <<>>,
         disallowed_services |-> <<>>],
     prod |->
        [blocked_actions |-> <<"iam:*", "sts:AssumeRole">>,
         required_conditions |->
            <<[key |-> "StringEquals",
               value |-> {<<"aws:RequestedRegion", "us-east-1">>}]>>,
         disallowed_services |-> <<"iam", "organizations">>]]

\* the module globals of one process
ModulePresets ==
    [analyze |-> GUARDRAIL_PRESETS, entrypoint |-> GUARDRAIL_PRESETS]

\* no invocation was made yet
NoInvocation ==
    [count |-> 0, fn |-> "none", preset |-> "none", extras |-> {},
     enforced |-> FALSE, used |-> GUARDRAIL_PRESETS["none"]]

Init ==
    /\ now = 0
    /\ presets = ModulePresets
    /\ invocation = NoInvocation
    /\ rolePolicies = [r \in RoleNames |-> {BaselinePolicy}]
    /\ call = [p \in Calls |-> IdleCall]
    /\ approvals = [a \in RoleArns |-> <<>>]
    /\ run = IdleRun
    /\ sfn = IdleSfn
    /\ guard = IdleGuard
    /\ diff = IdleDiff

\* ------------------------------------------------- orchestrate_rollout
\* entry of orchestrate_rollout(role_arn, policy_document, stage,
\* metrics_collector, description)
Enter(p, caller, role_arn, stage, collector) ==
    call' = [call EXCEPT ![p] =
        [IdleCall EXCEPT !.pc = "attach", !.caller = caller, !.role_arn = role_arn,
                         !.stage = stage, !.collector = collector,
                         !.before = rolePolicies[_role_name_from_arn(role_arn)],
                         !.peers = {q \in Calls \ {p} :
                                       call[q].pc \notin {"idle", "done"}}]]

\* the call ends; a Lambda caller turns the end into its response
Finish(p, c, result) ==
    call' = [call EXCEPT ![p] =
        [c EXCEPT !.pc = "done", !.result = result,
                  !.response = IF c.caller = "lambda" THEN handler_response(result)
                               ELSE NoResponse]]

\* variant: the policy is put on every role
StagePolicyVersionEveryRole(p) ==
    /\ call[p].pc = "attach"
    /\ LET c == call[p]
           policy_name == policy_name_at(now)
           logged == [c EXCEPT !.log = Append(@, <<"attach", policy_name>>)]
       IN  \/ /\ rolePolicies' = [r \in RoleNames |->
                                      rolePolicies[r] \cup {policy_name}]
              /\ call' = [call EXCEPT ![p] =
                    [logged EXCEPT !.pc = "collect", !.policy_name = policy_name,
                                   !.attach_ok = TRUE]]
           \/ /\ Finish(p, logged, Raised("RolloutError"))
              /\ UNCHANGED rolePolicies
    /\ UNCHANGED <<now, approvals, run, sfn, guard, diff, presets, invocation>>

\* stage_policy_version: put_role_policy under a name taken from the clock
StagePolicyVersion(p) ==
    /\ call[p].pc = "attach"
    /\ LET c == call[p]
           role_name == _role_name_from_arn(c.role_arn)
           policy_name == policy_name_at(now)
           logged == [c EXCEPT !.log = Append(@, <<"attach", policy_name>>)]
       IN  \/ /\ rolePolicies' = [rolePolicies EXCEPT ![role_name] = @ \cup {policy_name}]
              /\ call' = [call EXCEPT ![p] =
                    [logged EXCEPT !.pc = "collect", !.policy_name = policy_name,
                                   !.attach_ok = TRUE]]
           \/ /\ Finish(p, logged, Raised("RolloutError"))
              /\ UNCHANGED rolePolicies
    /\ UNCHANGED <<now, approvals, run, sfn, guard, diff, presets, invocation>>

\* the body of the try: metrics_collector(), evaluate_stage, except
Observe(p) ==
    /\ call[p].pc = "collect"
    /\ LET c == call[p]
       IN  \E response \in
                IF c.collector.kind = "cloudwatch" THEN CloudWatchResponses
                ELSE {NoCloudWatch} :
              LET collected ==
                    IF c.collector.kind = "raises" THEN CollectorRaised
                    ELSE IF c.collector.kind = "cloudwatch"
                         THEN _collect_cloudwatch_metrics(response)
                         ELSE Collected(c.collector.metrics)
              IN call' = [call EXCEPT ![p] =
                  [c EXCEPT !.pc = "finally", !.collected = collected,
                            !.cloudwatch = response,
                            !.pending = try_block(c.stage, collected),
                            !.log = Append(@, <<"collect", NoName>>)]]
    /\ UNCHANGED <<now, rolePolicies, approvals, run, sfn, guard, diff, presets, invocation>>

DeleteStagedPolicyOnSuccessOnly(p) ==
    /\ call[p].pc = "finally"
    /\ LET c == call[p]
           role_name == _role_name_from_arn(c.role_arn)
           logged == [c EXCEPT !.log = Append(@, <<"detach", c.policy_name>>)]
       IN  IF c.pending.kind = "returned" /\ ~c.pending.outcome.succeeded
           THEN /\ Finish(p, c, c.pending)
                /\ UNCHANGED rolePolicies
           ELSE \/ /\ c.policy_name \in rolePolicies[role_name]
                   /\ rolePolicies' = [rolePolicies EXCEPT ![role_name] = @ \ {c.policy_name}]
                   /\ Finish(p, [logged EXCEPT !.detach_ok = TRUE], c.pending)
                \/ /\ Finish(p, logged, Raised("RolloutError"))
                   /\ UNCHANGED rolePolicies
    /\ UNCHANGED <<now, approvals, run, sfn, guard, diff, presets, invocation>>

DeleteStagedPolicySwallow(p) ==
    /\ call[p].pc = "finally"
    /\ LET c == call[p]
           role_name == _role_name_from_arn(c.role_arn)
           logged == [c EXCEPT !.log = Append(@, <<"detach", c.policy_name>>)]
       IN  \/ /\ c.policy_name \in rolePolicies[role_name]
              /\ rolePolicies' = [rolePolicies EXCEPT ![role_name] = @ \ {c.policy_name}]
              /\ Finish(p, [logged EXCEPT !.detach_ok = TRUE], c.pending)
           \/ /\ Finish(p, logged, c.pending)
              /\ UNCHANGED rolePolicies
    /\ UNCHANGED <<now, approvals, run, sfn, guard, diff, presets, invocation>>

\* variant: the name is deleted from every role
DeleteStagedPolicyEveryRole(p) ==
    /\ call[p].pc = "finally"
    /\ LET c == call[p]
           role_name == _role_name_from_arn(c.role_arn)
           logged == [c EXCEPT !.log = Append(@, <<"detach", c.policy_name>>)]
       IN  \/ /\ c.policy_name \in rolePolicies[role_name]
              /\ rolePolicies' = [r \in RoleNames |->
                                      rolePolicies[r] \ {c.policy_name}]
              /\ Finish(p, [logged EXCEPT !.detach_ok = TRUE], c.pending)
           \/ /\ Finish(p, logged, Raised("RolloutError"))
              /\ UNCHANGED rolePolicies
    /\ UNCHANGED <<now, approvals, run, sfn, guard, diff, presets, invocation>>

\* the finally clause: delete_staged_policy, which either removes the
\* policy (it must exist) or fails with a ClientError and raises
DeleteStagedPolicy(p) ==
    /\ call[p].pc = "finally"
    /\ LET c == call[p]
           role_name == _role_name_from_arn(c.role_arn)
           logged == [c EXCEPT !.log = Append(@, <<"detach", c.policy_name>>)]
       IN  \/ /\ c.policy_name \in rolePolicies[role_name]
              /\ rolePolicies' = [rolePolicies EXCEPT ![role_name] = @ \ {c.policy_name}]
              /\ Finish(p, [logged EXCEPT !.detach_ok = TRUE], c.pending)
           \/ /\ Finish(p, logged, Raised("RolloutError"))
              /\ UNCHANGED rolePolicies
    /\ UNCHANGED <<now, approvals, run, sfn, guard, diff, presets, invocation>>

\* ------------------------------------------------------------ environment
\* time.time() advances
Tick ==
    /\ now < MaxClock
    /\ now' = now + 1
    /\ UNCHANGED <<rolePolicies, call, approvals, run, sfn, guard, diff, presets, invocation>>

\* the caller drops a finished call
Forget(p) ==
    /\ call[p].pc = "done"
    /\ call[p].caller \in {"direct", "lambda"}
    /\ call' = [call EXCEPT ![p] = IdleCall]
    /\ UNCHANGED <<now, rolePolicies, approvals, run, sfn, guard, diff, presets, invocation>>

Serialized(p) == \A q \in Calls \ {p} : call[q].pc = "idle"

\* a caller invokes orchestrate_rollout with a collector of its own
CallDirect(p) ==
    /\ call[p].pc = "idle"
    /\ Serialized(p)
    /\ \E role_arn \in RoleArns, stage \in Stages,
          collector \in ReturningCollectors \cup {RaisingCollector} :
            Enter(p, "direct", role_arn, stage, collector)
    /\ UNCHANGED <<now, rolePolicies, approvals, run, sfn, guard, diff, presets, invocation>>

\* ------------------------------------------------- lambdas/rollout handler
\* the event of the rollout Lambda: its stage string and whether the
\* fields the handler indexes are present
StageNames == Stages \cup {"bogus"}
Events ==
    [stage : StageNames, role_arn : RoleArns, complete : BOOLEAN]

\* handler, up to the call of orchestrate_rollout: a missing field is a
\* KeyError (400), an unknown stage a ValueError (500)
HandlerInvoke(p, event) ==
    /\ call[p].pc = "idle"
    /\ IF ~event.complete
       THEN call' = [call EXCEPT ![p] =
                [IdleCall EXCEPT !.pc = "done", !.caller = "lambda",
                                 !.response = Response(400, FALSE, FALSE)]]
       ELSE IF event.stage \notin Stages
       THEN call' = [call EXCEPT ![p] =
                [IdleCall EXCEPT !.pc = "done", !.caller = "lambda",
                                 !.response = Response(500, TRUE, FALSE)]]
       ELSE Enter(p, "lambda", event.role_arn, event.stage, CloudWatchCollector)

CallLambda(p) ==
    /\ Serialized(p)
    /\ \E event \in Events : HandlerInvoke(p, event)
    /\ UNCHANGED <<now, rolePolicies, approvals, run, sfn, guard, diff, presets, invocation>>

\* ---------------------------------------------------------- ApprovalStore
\* an item of the approval table: its sort key and, for an item written by
\* ApprovalStore.record, the decision; the item PersistProposal writes has
\* no approver and no approved attribute
ApprovalItem(timestamp, approved) ==
    [timestamp |-> timestamp, is_record |-> TRUE, approved |-> approved]
ProposalItem(timestamp) ==
    [timestamp |-> timestamp, is_record |-> FALSE, approved |-> FALSE]

\* put_item: an item with the sort key of the last one replaces it
put_item(items, item) ==
    IF Len(items) > 0 /\ items[Len(items)].timestamp = item.timestamp
    THEN [items EXCEPT ![Len(items)] = item]
    ELSE Append(items, item)

\* variant: any approving record counts
latest_any_approved(items) ==
    IF Len(items) = 0 THEN "absent"
    ELSE IF \E i \in 1..Len(items) : items[i].is_record /\ items[i].approved
    THEN "approved"
    ELSE IF ~items[Len(items)].is_record THEN "KeyError"
    ELSE "rejected"

\* ApprovalStore.latest over a query that answered: the item with the
\* greatest sort key, None without items, a KeyError for an item without
\* the attributes of a record
latest(items) ==
    IF Len(items) = 0 THEN "absent"
    ELSE IF ~items[Len(items)].is_record THEN "KeyError"
    ELSE IF items[Len(items)].approved THEN "approved" ELSE "rejected"

\* what a lookup can give: the query fails (ApprovalStoreError) or answers
Lookups(items) == {"ApprovalStoreError", latest(items)}

LastTimestamp(items) == IF Len(items) = 0 THEN 0 ELSE items[Len(items)].timestamp

\* ApprovalStore.record, at an instant not before the last item's; only
\* two records can carry the same isoformat timestamp
RecordApproval ==
    /\ \E role_arn \in RoleArns, approved \in BOOLEAN, later \in BOOLEAN :
        LET items == approvals[role_arn]
            timestamp == LastTimestamp(items) + (IF later THEN 1 ELSE 0)
        IN  /\ later \/ (Len(items) > 0 /\ items[Len(items)].is_record)
            /\ timestamp <= MaxRecords
            /\ approvals' = [approvals EXCEPT ![role_arn] =
                                put_item(items, ApprovalItem(timestamp, approved))]
    /\ UNCHANGED <<now, rolePolicies, call, run, sfn, guard, diff, presets, invocation>>

\* ------------------------------------------------------- orchestrator.run
\* request_human_approval: true iff the lookup answered with an approved
\* latest record
request_human_approval(lookup) == lookup = "approved"

MetricsFiles == {{<<"error_rate", 0>>}, {<<"error_rate", 50000>>}, {}}

RunArgs ==
    [resource_arn : RoleArns, approval_table : BOOLEAN, slack_webhook : BOOLEAN,
     rollout_stage : Stages \cup {"None"}, metrics_json : {TRUE},
     metrics_file : MetricsFiles]
    \cup
    [resource_arn : RoleArns, approval_table : BOOLEAN, slack_webhook : BOOLEAN,
     rollout_stage : Stages \cup {"None"}, metrics_json : {FALSE},
     metrics_file : {{}}]

\* _load_metrics
_load_metrics(args) ==
    IF ~args.metrics_json THEN {<<"error_rate", 0>>} ELSE args.metrics_file

RunExit(status) == run' = [run EXCEPT !.pc = "exited", !.exit = status]

\* run is entered with parsed arguments
RunStart ==
    /\ run.pc = "idle"
    /\ \A p \in Calls : call[p].pc = "idle"
    /\ \E args \in RunArgs : run' = [IdleRun EXCEPT !.pc = "generate", !.args = args]
    /\ UNCHANGED <<now, rolePolicies, call, approvals, sfn, guard, diff, presets, invocation>>

\* generate_policy: a PolicyGenerationError ends run with status 1
RunGenerate ==
    /\ run.pc = "generate"
    /\ \/ run' = [run EXCEPT !.pc = "propose"]
       \/ RunExit(1)
    /\ UNCHANGED <<now, rolePolicies, call, approvals, sfn, guard, diff, presets, invocation>>

\* propose_policy: a BedrockReasoningError ends run with status 1; then
\* guardrails, diff, report and pull request, none of which ends run
RunPropose ==
    /\ run.pc = "propose"
    /\ \/ run' = [run EXCEPT !.pc = "approval"]
       \/ RunExit(1)
    /\ UNCHANGED <<now, rolePolicies, call, approvals, sfn, guard, diff, presets, invocation>>

\* the approval gate of run: only with --approval-table; a refusal sends
\* the Slack notification when a webhook is set and ends run with status 2;
\* a KeyError of the lookup is caught nowhere and ends the process
RunApproval ==
    /\ run.pc = "approval"
    /\ IF ~run.args.approval_table
       THEN run' = [run EXCEPT !.pc = "rollout"]
       ELSE \E lookup \in Lookups(approvals[run.args.resource_arn]) :
              IF lookup = "KeyError"
              THEN run' = [run EXCEPT !.pc = "exited", !.exit = 1, !.lookup = lookup]
              ELSE IF request_human_approval(lookup)
              THEN run' = [run EXCEPT !.pc = "rollout", !.lookup = lookup]
              ELSE run' = [run EXCEPT !.pc = "exited", !.exit = 2, !.lookup = lookup,
                                      !.notified = run.args.slack_webhook]
    /\ UNCHANGED <<now, rolePolicies, call, approvals, sfn, guard, diff, presets, invocation>>

\* the rollout of run: only with --rollout-stage; the collector returns the
\* metrics loaded before the call
RunRollout ==
    /\ run.pc = "rollout"
    /\ IF run.args.rollout_stage = "None"
       THEN /\ RunExit(0)
            /\ UNCHANGED call
       ELSE /\ Enter(1, "run", run.args.resource_arn, run.args.rollout_stage,
                     [kind |-> "returns", metrics |-> _load_metrics(run.args)])
            /\ run' = [run EXCEPT !.pc = "await"]
    /\ UNCHANGED <<now, rolePolicies, approvals, sfn, guard, diff, presets, invocation>>

\* orchestrate_rollout came back: a RolloutError is status 1, an outcome 0
RunReturn ==
    /\ run.pc = "await"
    /\ call[1].pc = "done"
    /\ RunExit(IF call[1].result.kind = "raised" THEN 1 ELSE 0)
    /\ UNCHANGED <<now, rolePolicies, call, approvals, sfn, guard, diff, presets, invocation>>

\* ----------------------------------------------- Step Functions workflow
\* largest number of CheckApproval polls of one execution the model follows
MaxPolls == 2

\* lambdas/approval_checker handler
approval_checker_handler(lookup) ==
    IF lookup = "ApprovalStoreError" THEN ApprovalPayload(500, FALSE, FALSE)
    ELSE IF lookup = "KeyError" THEN ApprovalPayload(400, FALSE, FALSE)
    ELSE IF lookup = "absent" THEN ApprovalPayload(200, TRUE, FALSE)
    ELSE ApprovalPayload(200, TRUE, lookup = "approved")

Completed(task, payload) == <<task, payload.statusCode, payload.has_succeeded, payload.succeeded>>

\* an execution starts; PersistProposal puts the proposal under the role's
\* key at the state's entered time, then the execution waits
SfnPersistProposal ==
    /\ sfn.state = "idle"
    /\ \A p \in Calls : call[p].pc = "idle"
    /\ \E role_arn \in RoleArns :
        LET items == approvals[role_arn]
            timestamp == LastTimestamp(items) + 1
        IN  /\ timestamp <= MaxRecords
            /\ approvals' = [approvals EXCEPT ![role_arn] =
                                put_item(items, ProposalItem(timestamp))]
            /\ sfn' = [IdleSfn EXCEPT !.state = "WaitForApproval", !.role_arn = role_arn]
    /\ UNCHANGED <<now, rolePolicies, call, run, guard, diff, presets, invocation>>

\* WaitForApproval, five minutes, then CheckApproval
SfnWaitForApproval ==
    /\ sfn.state = "WaitForApproval"
    /\ sfn.polls < MaxPolls
    /\ sfn' = [sfn EXCEPT !.state = "CheckApproval", !.polls = @ + 1]
    /\ UNCHANGED <<now, rolePolicies, call, approvals, run, guard, diff, presets, invocation>>

\* the CheckApproval task, its payload stored at $.approvalStatus
SfnCheckApproval ==
    /\ sfn.state = "CheckApproval"
    /\ \E lookup \in Lookups(approvals[sfn.role_arn]) :
        LET payload == approval_checker_handler(lookup)
        IN  sfn' = [sfn EXCEPT !.state = "ApprovalDecision", !.approvalStatus = payload,
                        !.history = Append(@, <<"CheckApproval", payload.statusCode,
                                                payload.has_approved, payload.approved>>)]
    /\ UNCHANGED <<now, rolePolicies, call, approvals, run, guard, diff, presets, invocation>>

\* the ApprovalDecision choice; a choice over a path the data does not
\* have fails the execution
SfnApprovalDecision ==
    /\ sfn.state = "ApprovalDecision"
    /\ sfn' = [sfn EXCEPT !.state =
                  IF ~sfn.approvalStatus.has_approved THEN "ExecutionFailed"
                  ELSE IF sfn.approvalStatus.approved THEN "SandboxRollout"
                  ELSE "WaitForApproval"]
    /\ UNCHANGED <<now, rolePolicies, call, approvals, run, guard, diff, presets, invocation>>

RolloutTasks == {"SandboxRollout", "CanaryRollout", "TargetRollout"}
TaskStage(task) ==
    IF task = "SandboxRollout" THEN "sandbox"
    ELSE IF task = "CanaryRollout" THEN "canary" ELSE "target"

\* a rollout task invokes the rollout Lambda with the task's stage, the
\* sanitized proposal and the role of the execution
SfnInvokeRollout ==
    /\ sfn.state \in RolloutTasks
    /\ call[1].pc = "idle"
    /\ HandlerInvoke(1, [stage |-> TaskStage(sfn.state), role_arn |-> sfn.role_arn,
                         complete |-> TRUE])
    /\ UNCHANGED <<now, rolePolicies, approvals, run, sfn, guard, diff, presets, invocation>>

\* the state after a rollout task
AfterTask(task) ==
    IF task = "SandboxRollout" THEN "CanaryDecision"
    ELSE IF task = "CanaryRollout" THEN "TargetDecision" ELSE "Success"

\* the Lambda answered: its payload is stored in the execution's data
SfnTaskDone ==
    /\ sfn.state \in RolloutTasks
    /\ call[1].pc = "done"
    /\ LET payload == call[1].response
           stored == IF sfn.state = "SandboxRollout"
                     THEN [sfn EXCEPT !.sandboxOutcome = payload]
                     ELSE IF sfn.state = "CanaryRollout"
                     THEN [sfn EXCEPT !.canaryOutcome = payload]
                     ELSE [sfn EXCEPT !.targetOutcome = payload]
       IN  sfn' = [stored EXCEPT !.state = AfterTask(sfn.state),
                                 !.history = Append(@, Completed(sfn.state, payload))]
    /\ call' = [call EXCEPT ![1] = IdleCall]
    /\ UNCHANGED <<now, rolePolicies, approvals, run, guard, diff, presets, invocation>>

CanaryDecisionAlways(outcome) == "CanaryRollout"

\* the CanaryDecision choice over $.sandboxOutcome.Payload.succeeded
CanaryDecision(outcome) ==
    IF ~outcome.has_succeeded THEN "ExecutionFailed"
    ELSE IF outcome.succeeded THEN "CanaryRollout" ELSE "SandboxFailed"

\* the TargetDecision choice over $.canaryOutcome.Payload.succeeded
TargetDecision(outcome) ==
    IF ~outcome.has_succeeded THEN "ExecutionFailed"
    ELSE IF outcome.succeeded THEN "TargetRollout" ELSE "CanaryFailed"

SfnCanaryDecision ==
    /\ sfn.state = "CanaryDecision"
    /\ sfn' = [sfn EXCEPT !.state = CanaryDecision(sfn.sandboxOutcome)]
    /\ UNCHANGED <<now, rolePolicies, call, approvals, run, guard, diff, presets, invocation>>

SfnTargetDecision ==
    /\ sfn.state = "TargetDecision"
    /\ sfn' = [sfn EXCEPT !.state = TargetDecision(sfn.canaryOutcome)]
    /\ UNCHANGED <<now, rolePolicies, call, approvals, run, guard, diff, presets, invocation>>

\* ---------------------------------------------------------- specification
Next ==
    \/ Tick
    \/ \E p \in Calls : CallDirect(p)
    \/ \E p \in Calls : CallLambda(p)
    \/ \E p \in Calls : StagePolicyVersion(p)
    \/ \E p \in Calls : Observe(p)
    \/ \E p \in Calls : DeleteStagedPolicy(p)
    \/ \E p \in Calls : Forget(p)

Spec == Init /\ [][Next]_vars

\* ------------------------------------------ calls that are not serialized
\* the collectors of the overlapping calls: a healthy one, one that fails
\* every threshold, one that raises
OverlapCollectors ==
    {[kind |-> "returns", metrics |-> {<<"error_rate", 0>>}],
     [kind |-> "returns", metrics |-> {<<"error_rate", SandboxThreshold>>}],
     RaisingCollector}

\* a caller invokes orchestrate_rollout whatever the other calls are doing
CallOverlapping(p) ==
    /\ call[p].pc = "idle"
    /\ \E role_arn \in RoleArns, stage \in Stages,
          collector \in OverlapCollectors :
            Enter(p, "direct", role_arn, stage, collector)
    /\ UNCHANGED <<now, rolePolicies, approvals, run, sfn, guard, diff, presets, invocation>>

NextOverlap ==
    \/ Tick
    \/ \E p \in Calls : CallOverlapping(p)
    \/ \E p \in Calls : StagePolicyVersion(p)
    \/ \E p \in Calls : Observe(p)
    \/ \E p \in Calls : DeleteStagedPolicy(p)

SpecOverlap == Init /\ [][NextOverlap]_vars

\* one invocation of orchestrator.run, with approvals being recorded
NextRun ==
    \/ RecordApproval
    \/ RunStart
    \/ RunGenerate
    \/ RunPropose
    \/ RunApproval
    \/ RunRollout
    \/ StagePolicyVersion(1)
    \/ Observe(1)
    \/ DeleteStagedPolicy(1)
    \/ RunReturn

SpecRun == Init /\ [][NextRun]_vars

\* one execution of the state machine, with approvals being recorded
NextSfn ==
    \/ RecordApproval
    \/ SfnPersistProposal
    \/ SfnWaitForApproval
    \/ SfnCheckApproval
    \/ SfnApprovalDecision
    \/ SfnInvokeRollout
    \/ StagePolicyVersion(1)
    \/ Observe(1)
    \/ DeleteStagedPolicy(1)
    \/ SfnTaskDone
    \/ SfnCanaryDecision
    \/ SfnTargetDecision

SpecSfn == Init /\ [][NextSfn]_vars

\* ============================================================ guardrails
\* src/alpha_agent/guardrails.py, models.py PolicyDocument

\* ------------------------------------------------------------- strings
\* An action name is a Python str: the sequence of its characters.
\* Alphabet lists the characters that occur, in code point order.
Alphabet ==
    <<"*", "3", ":", "G", "O", "P", "R", "a", "b", "c", "e", "i", "j",
      "l", "m", "o", "s", "t">>

ord(c) == CHOOSE i \in 1..Len(Alphabet) : Alphabet[i] = c

Star == <<"*">>
StarStar == <<"*", ":", "*">>
ColonStar == <<":", "*">>
S3Star == <<"s", "3", ":", "*">>
S3GetObject == <<"s", "3", ":", "G", "e", "t", "O", "b", "j", "e", "c", "t">>
IamPassRole == <<"i", "a", "m", ":", "P", "a", "s", "s", "R", "o", "l", "e">>
Iam == <<"i", "a", "m">>
S3 == <<"s", "3">>

\* str.endswith
endswith(s, suffix) ==
    /\ Len(s) >= Len(suffix)
    /\ SubSeq(s, Len(s) - Len(suffix) + 1, Len(s)) = suffix

\* c in s, for a one-character c
contains(s, c) == \E i \in 1..Len(s) : s[i] = c

\* s.split(c)[0]: the part of s before its first c
split_first(s, c) ==
    IF contains(s, c)
    THEN LET i == CHOOSE k \in 1..Len(s) :
                      s[k] = c /\ \A j \in 1..(k - 1) : s[j] # c
         IN SubSeq(s, 1, i - 1)
    ELSE s

\* x in xs, for a list xs
InList(x, xs) == \E i \in 1..Len(xs) : xs[i] = x

\* ---------------------------------------------------- statement dicts
\* A statement is a dict. Its "Action" and "Resource" entries are absent,
\* one string, or a list of strings; "Condition" is absent or a dict
\* operator -> (key -> value), kept as a function from operators to sets
\* of <<key, value>> pairs; "Effect" is absent or a string.
Absent == [kind |-> "absent", items |-> <<>>]

Str(s) == [kind |-> "str", items |-> <<s>>]

List(xs) == [kind |-> "list", items |-> xs]

NoCondition == [present |-> FALSE, ops |-> [o \in {} |-> {}]]

Condition(ops) == [present |-> TRUE, ops |-> ops]

Statement(effect, action, resource, condition) ==
    [Effect |-> effect, Action |-> action, Resource |-> resource,
     Condition |-> condition]

\* _ensure_list(statement.get(field, []))
_ensure_list(value) ==
    IF value.kind = "list" THEN value.items
    ELSE IF value.kind = "str" THEN value.items
    ELSE <<>>

WILDCARD_ACTION_VIOLATION == "WILDCARD_ACTION"

UNSUPPORTED_SERVICE_VIOLATION == "UNSUPPORTED_SERVICE"

MISSING_CONDITION_VIOLATION == "MISSING_CONDITION"

\* GuardrailViolation(code, message, path): rule, action and op stand for
\* the message (which rule wrote it and what it names), idx and field
\* for the path statement[idx].field
GuardrailViolation(code, rule, idx, field, action, op) ==
    [code |-> code, rule |-> rule, idx |-> idx, field |-> field,
     action |-> action, op |-> op]

\* for blocked in blocked_actions: if blocked in actions: ...
\* `actions` is the list read before the wildcard rule; every removal
\* rebuilds statement["Action"] from it
RECURSIVE blocked_loop(_, _, _, _)
blocked_loop(idx, actions, blocked_actions, acc) ==
    IF blocked_actions = <<>> THEN acc
    ELSE LET blocked == Head(blocked_actions)
             NotBlocked(a) == a # blocked
         IN blocked_loop(idx, actions, Tail(blocked_actions),
              IF InList(blocked, actions)
              THEN [Action |-> List(SelectSeq(actions, NotBlocked)),
                    violations |-> Append(acc.violations,
                        GuardrailViolation(WILDCARD_ACTION_VIOLATION,
                            "blocked", idx, "Action", blocked, ""))]
              ELSE acc)

\* for key, value in required_conditions.items():
\*     if key not in conditions: ...; conditions[key] = value
RECURSIVE condition_loop(_, _, _)
condition_loop(idx, required_conditions, acc) ==
    IF required_conditions = <<>> THEN acc
    ELSE LET key == Head(required_conditions).key
             value == Head(required_conditions).value
         IN condition_loop(idx, Tail(required_conditions),
              IF key \notin DOMAIN acc.conditions
              THEN [conditions |->
                        [o \in DOMAIN acc.conditions \cup {key} |->
                            IF o = key THEN value ELSE acc.conditions[o]],
                    violations |-> Append(acc.violations,
                        GuardrailViolation(MISSING_CONDITION_VIOLATION,
                            "condition", idx, "Condition", <<>>, key))]
              ELSE acc)

\* variant: the condition rule reports before the action rules
statement_violations_condition_first(wildcard, blocked, service, condition) ==
    condition \o wildcard \o blocked \o service

\* the violations of one statement, in the order the rules append them
statement_violations(wildcard, blocked, service, condition) ==
    wildcard \o blocked \o service \o condition

\* body of the loop over enumerate(updated_policy["statement"])
enforce_statement(idx, statement, rules) ==
    LET actions == _ensure_list(statement.Action)
        resources == _ensure_list(statement.Resource)
        IsWildcard(a) == a = Star \/ endswith(a, ColonStar)
        wildcard == \E i \in 1..Len(actions) : IsWildcard(actions[i])
        NotBare(a) == a \notin {Star, StarStar}
        afterWildcard ==
            [Action |-> IF wildcard THEN List(SelectSeq(actions, NotBare))
                        ELSE statement.Action,
             violations |-> <<>>]
        afterBlocked ==
            blocked_loop(idx, actions, rules.blocked_actions, afterWildcard)
        services ==
            {split_first(actions[i], ":") :
                i \in {k \in 1..Len(actions) : contains(actions[k], ":")}}
        disallowed ==
            {rules.disallowed_services[i] :
                i \in 1..Len(rules.disallowed_services)}
        afterConditions ==
            condition_loop(idx, rules.required_conditions,
                [conditions |-> statement.Condition.ops,
                 violations |-> <<>>])
        NotStar(r) == r # "*"
    IN [statement |->
            [Effect |-> statement.Effect,
             Action |-> afterBlocked.Action,
             Resource |-> IF InList("*", resources) /\ Len(resources) > 1
                          THEN List(SelectSeq(resources, NotStar))
                          ELSE statement.Resource,
             Condition |-> Condition(afterConditions.conditions)],
        violations |->
            statement_violations(
                IF wildcard
                THEN <<GuardrailViolation(WILDCARD_ACTION_VIOLATION,
                           "wildcard", idx, "Action", <<>>, "")>>
                ELSE <<>>,
                afterBlocked.violations,
                IF disallowed # {} /\ services \cap disallowed # {}
                THEN <<GuardrailViolation(UNSUPPORTED_SERVICE_VIOLATION,
                           "service", idx, "", <<>>, "")>>
                ELSE <<>>,
                afterConditions.violations)]

\* the loop over the statements: every statement is processed in place,
\* none is added or deleted
RECURSIVE statement_loop(_, _, _, _)
statement_loop(idx, statements, rules, acc) ==
    IF idx >= Len(statements) THEN acc
    ELSE LET r == enforce_statement(idx, statements[idx + 1], rules)
         IN statement_loop(idx + 1, statements, rules,
              [statement |-> Append(acc.statement, r.statement),
               violations |-> acc.violations \o r.violations])

\* variant: the statements are edited in place
deepcopy_same_object(policy) == [value |-> policy, same_object |-> TRUE]

\* copy.deepcopy(policy).model_dump(): equal content in an object of its
\* own
deepcopy(policy) == [value |-> policy, same_object |-> FALSE]

\* variant: a statement whose action list ends empty is dropped
enforce_guardrails_drop_empty(policy, rules) ==
    LET r == statement_loop(0, policy.statement, rules,
                 [statement |-> <<>>, violations |-> <<>>])
        HasActions(statement) == statement.Action # List(<<>>)
    IN [policy |-> [error |-> "", version |-> policy.version,
                    statement |-> SelectSeq(r.statement, HasActions)],
        violations |-> r.violations,
        argument |-> policy]

\* enforce_guardrails(policy, blocked_actions, required_conditions,
\* disallowed_services): edits updated_policy and returns
\* (sanitized, violations); `argument` is the caller's policy object as
\* the call leaves it, which holds the edits iff updated_policy is that
\* object
enforce_guardrails(policy, rules) ==
    LET updated_policy == deepcopy(policy)
        r == statement_loop(0, updated_policy.value.statement, rules,
                 [statement |-> <<>>, violations |-> <<>>])
    IN [policy |-> [error |-> "", version |-> policy.version,
                    statement |-> r.statement],
        violations |-> r.violations,
        argument |-> IF updated_policy.same_object
                     THEN [policy EXCEPT !.statement = r.statement]
                     ELSE policy]

\* PolicyDocument(**payload): "Statement" is required and must be a list
\* of dicts; the dicts themselves are not inspected. A payload without
\* "Statement" raises ValidationError.
ValidationError == "ValidationError"

PolicyDocument(payload) ==
    IF "Statement" \notin payload.keys THEN [error |-> ValidationError]
    ELSE [error |-> "", version |-> payload.Version,
          statement |-> payload.Statement]

NoPolicy == [error |-> "none"]

\* --------------------------------------------------- evaluated inputs
MaxActions == 2

MaxStatements == 2

ActionPool == {Star, StarStar, S3Star, S3GetObject, IamPassRole}

ActionValues ==
    {Absent} \cup {Str(a) : a \in ActionPool}
    \cup {List(l) : l \in UNION {[1..n -> ActionPool] : n \in 0..MaxActions}}

ResourceValues ==
    {Absent, Str("*"), List(<<"*">>), List(<<"*", "*">>),
     List(<<"arn:b", "*", "arn:a">>), List(<<"arn:a">>)}

ConditionValues ==
    {NoCondition,
     Condition([o \in {"StringEquals"} |->
                    {<<"aws:RequestedRegion", "eu-west-1">>}]),
     Condition([o \in {"StringEquals"} |->
                    {<<"aws:PrincipalTag/team", "alpha">>}]),
     Condition([o \in {"Bool"} |-> {<<"aws:SecureTransport", "true">>}])}

\* statements varied in their actions and in their resources or their
\* conditions
FullStatements ==
    {Statement("Allow", a, r, NoCondition) :
        a \in ActionValues, r \in ResourceValues}
    \cup {Statement("Allow", a, Str("*"), c) :
            a \in ActionValues, c \in ConditionValues}

\* the statement of Scenario A, which carries no "Effect", and a Deny
\* statement
ScenarioAStatement == Statement("absent", Str(Star), Str("*"), NoCondition)

DenyStatement ==
    Statement("Deny", List(<<IamPassRole>>), Str("arn:a"), NoCondition)

\* one varied statement at any place among Scenario A statements
StatementLists ==
    UNION {{[i \in 1..n |-> IF i = k THEN f ELSE ScenarioAStatement] :
                k \in 1..n, f \in FullStatements} : n \in 1..MaxStatements}
    \cup {<<ScenarioAStatement>>, <<DenyStatement>>,
          <<DenyStatement, ScenarioAStatement>>}

Payloads ==
    {[keys |-> {"Version", "Statement"}, Version |-> "2012-10-17",
      Statement |-> s] : s \in StatementLists}
    \cup {[keys |-> {"Version"}, Version |-> "2012-10-17",
           Statement |-> <<>>]}

RegionCondition ==
    [key |-> "StringEquals",
     value |-> {<<"aws:RequestedRegion", "us-east-1">>}]

TransportCondition ==
    [key |-> "Bool", value |-> {<<"aws:SecureTransport", "true">>}]

Rules(blocked_actions, required_conditions, disallowed_services) ==
    [blocked_actions |-> blocked_actions,
     required_conditions |-> required_conditions,
     disallowed_services |-> disallowed_services]

\* the rules orchestrator.run passes to enforce_guardrails
RunRules == Rules(<<IamPassRole>>, <<RegionCondition>>, <<Iam>>)

Rulesets ==
    {RunRules,
     Rules(<<>>, <<>>, <<>>),
     Rules(<<S3GetObject, IamPassRole>>, <<>>, <<S3>>),
     Rules(<<>>, <<TransportCondition, RegionCondition>>, <<Iam, S3>>)}

NoSanitized == [policy |-> NoPolicy, violations |-> <<>>, argument |-> NoPolicy]

\* a caller holds a policy payload and a ruleset
InitGuard ==
    /\ now = 0
    /\ presets = ModulePresets
    /\ invocation = NoInvocation
    /\ rolePolicies = [r \in RoleNames |-> {BaselinePolicy}]
    /\ call = [p \in Calls |-> IdleCall]
    /\ approvals = [a \in RoleArns |-> <<>>]
    /\ run = IdleRun
    /\ sfn = IdleSfn
    /\ diff = IdleDiff
    /\ \E payload \in Payloads, rules \in Rulesets :
         guard = [pc |-> "payload", payload |-> payload, rules |-> rules,
                  policy |-> NoPolicy, first |-> NoSanitized,
                  second |-> NoSanitized]

\* policy = PolicyDocument(**policy_payload)
GuardValidate ==
    /\ guard.pc = "payload"
    /\ LET policy == PolicyDocument(guard.payload)
       IN guard' = IF policy.error = ValidationError
                   THEN [guard EXCEPT !.pc = "rejected"]
                   ELSE [guard EXCEPT !.pc = "document", !.policy = policy]
    /\ UNCHANGED <<now, rolePolicies, call, approvals, run, sfn, diff, presets, invocation>>

\* sanitized, violations = enforce_guardrails(policy, ...)
GuardEnforce ==
    /\ guard.pc = "document"
    /\ LET returned == enforce_guardrails(guard.policy, guard.rules)
       IN guard' = [guard EXCEPT !.pc = "sanitized",
                       !.policy = returned.argument,
                       !.first = returned]
    /\ UNCHANGED <<now, rolePolicies, call, approvals, run, sfn, diff, presets, invocation>>

\* the sanitized policy is sanitized again under the same rules
GuardEnforceAgain ==
    /\ guard.pc = "sanitized"
    /\ LET returned == enforce_guardrails(guard.first.policy, guard.rules)
       IN guard' = [guard EXCEPT !.pc = "resanitized",
                       !.first = [@ EXCEPT !.policy = returned.argument],
                       !.second = returned]
    /\ UNCHANGED <<now, rolePolicies, call, approvals, run, sfn, diff, presets, invocation>>

NextGuard ==
    \/ GuardValidate
    \/ GuardEnforce
    \/ GuardEnforceAgain

SpecGuard == InitGuard /\ [][NextGuard]_vars

\* ------------------------------------------ invocations in one process
MaxInvocations == 2

\* extras are sets of <<key, value>> entries; the value of an absent key
ExtraOf(extras, key, default) ==
    IF \E e \in extras : e[1] = key
    THEN (CHOOSE e \in extras : e[1] = key)[2]
    ELSE default

HasExtra(extras, key) == \E e \in extras : e[1] = key

\* --guardrails values, "staging" being no preset
GuardrailNames == {"none", "sandbox", "prod", "staging"}

\* --exclude-services and --suppress-actions values
ExcludeServices == {<<>>, <<"s3">>}
SuppressActions == {<<>>, <<"s3:GetObject">>}

\* payload["preset"] values, "" for a payload without the key
PresetNames == {"", "none", "sandbox", "prod", "PROD", "staging"}

\* payload["extras"] values
Extras ==
    {{},
     {<<"blocked_actions", <<"s3:GetObject">>>>},
     {<<"disallowed_services", <<"s3">>>>},
     {<<"required_conditions",
        <<[key |-> "Bool", value |-> {<<"aws:SecureTransport", "true">>}]>>>>},
     {<<"blocked_actions", <<"s3:GetObject">>>>,
      <<"disallowed_services", <<"s3">>>>}}

\* str.lower() on the preset names in use
lower(s) == IF s = "PROD" THEN "prod" ELSE s

\* dict(base) followed by update(extra): an entry of extra replaces the
\* entry of base under the same key, new keys are added at the end
dict_update(base, extra) ==
    LET Replaced(i) ==
            IF \E j \in 1..Len(extra) : extra[j].key = base[i].key
            THEN extra[CHOOSE j \in 1..Len(extra) : extra[j].key = base[i].key]
            ELSE base[i]
        IsNew(e) == \A i \in 1..Len(base) : base[i].key # e.key
    IN [i \in 1..Len(base) |-> Replaced(i)] \o SelectSeq(extra, IsNew)

InitPresets ==
    /\ now = 0
    /\ presets = ModulePresets
    /\ invocation = NoInvocation
    /\ rolePolicies = [r \in RoleNames |-> {BaselinePolicy}]
    /\ call = [p \in Calls |-> IdleCall]
    /\ approvals = [a \in RoleArns |-> <<>>]
    /\ run = IdleRun
    /\ sfn = IdleSfn
    /\ guard = [pc |-> "idle"]
    /\ diff = IdleDiff

\* run_analyze(role_arn, guardrails=..., exclude_services=...,
\* suppress_actions=...): guardrail_config is the preset dict itself, and
\* the two extend calls append to its lists
RunAnalyze ==
    /\ invocation.count < MaxInvocations
    /\ \E guardrails \in GuardrailNames,
          exclude_services \in ExcludeServices,
          suppress_actions \in SuppressActions :
         LET name == IF guardrails \in DOMAIN presets.analyze
                     THEN guardrails ELSE "prod"
             guardrail_config ==
                 [presets.analyze[name] EXCEPT
                     !.disallowed_services = @ \o exclude_services,
                     !.blocked_actions = @ \o suppress_actions]
         IN /\ presets' = [presets EXCEPT !.analyze[name] = guardrail_config]
            /\ invocation' =
                 [count |-> invocation.count + 1, fn |-> "run_analyze",
                  preset |-> guardrails,
                  extras |-> {<<"disallowed_services", exclude_services>>,
                              <<"blocked_actions", suppress_actions>>},
                  enforced |-> TRUE, used |-> guardrail_config]
    /\ UNCHANGED <<now, rolePolicies, call, approvals, run, sfn, guard, diff>>

\* _enforce(payload): a payload without policy is answered with an error;
\* otherwise cfg is a copy of the preset dict and each extra is merged
\* into a new list or dict
EnforceEntrypoint ==
    /\ invocation.count < MaxInvocations
    /\ \E has_policy \in BOOLEAN, preset_arg \in PresetNames,
          extras \in Extras :
         LET given == lower(IF preset_arg = "" THEN "sandbox" ELSE preset_arg)
             preset == IF given \in DOMAIN presets.entrypoint
                       THEN given ELSE "sandbox"
             copy == presets.entrypoint[preset]
             cfg ==
                 [blocked_actions |->
                     IF HasExtra(extras, "blocked_actions")
                     THEN copy.blocked_actions
                            \o ExtraOf(extras, "blocked_actions", <<>>)
                     ELSE copy.blocked_actions,
                  required_conditions |->
                     IF HasExtra(extras, "required_conditions")
                     THEN dict_update(copy.required_conditions,
                            ExtraOf(extras, "required_conditions", <<>>))
                     ELSE copy.required_conditions,
                  disallowed_services |->
                     IF HasExtra(extras, "disallowed_services")
                     THEN copy.disallowed_services
                            \o ExtraOf(extras, "disallowed_services", <<>>)
                     ELSE copy.disallowed_services]
         IN invocation' =
                 [count |-> invocation.count + 1, fn |-> "_enforce",
                  preset |-> preset_arg, extras |-> extras,
                  enforced |-> has_policy,
                  used |-> IF has_policy THEN cfg
                           ELSE GUARDRAIL_PRESETS["none"]]
    /\ UNCHANGED <<now, rolePolicies, call, approvals, run, sfn, guard, diff,
                   presets>>

NextPresets ==
    \/ RunAnalyze
    \/ EnforceEntrypoint

SpecPresets == InitPresets /\ [][NextPresets]_vars

\* ================================================================== diff
\* src/alpha_agent/diff.py

\* a < b on Python str: code point order, a proper prefix first
str_lt(a, b) ==
    \E i \in 1..Len(b) :
        /\ \A j \in 1..(i - 1) : j <= Len(a) /\ a[j] = b[j]
        /\ \/ i = Len(a) + 1
           \/ i <= Len(a) /\ ord(a[i]) < ord(b[i])

\* variant: descending order
RECURSIVE sorted_descending(_)
sorted_descending(set) ==
    IF set = {} THEN <<>>
    ELSE LET last == CHOOSE x \in set : \A y \in set \ {x} : str_lt(y, x)
         IN <<last>> \o sorted_descending(set \ {last})

\* sorted(set): the ascending list of the set's members
RECURSIVE sorted(_)
sorted(set) ==
    IF set = {} THEN <<>>
    ELSE LET first == CHOOSE x \in set : \A y \in set \ {x} : str_lt(x, y)
         IN <<first>> \o sorted(set \ {first})

\* variant: only the actions of Allow statements are collected
RECURSIVE _normalize_actions_allow_only(_)
_normalize_actions_allow_only(statements) ==
    IF statements = <<>> THEN {}
    ELSE LET statement_actions ==
                 IF Head(statements).Effect = "Allow"
                 THEN _ensure_list(Head(statements).Action)
                 ELSE <<>>
         IN {statement_actions[i] : i \in 1..Len(statement_actions)}
                \cup _normalize_actions_allow_only(Tail(statements))

\* _normalize_actions(statements): statement.get("Action") or [], a str
\* wrapped into a list, all collected into one set
RECURSIVE _normalize_actions(_)
_normalize_actions(statements) ==
    IF statements = <<>> THEN {}
    ELSE LET statement_actions == _ensure_list(Head(statements).Action)
         IN {statement_actions[i] : i \in 1..Len(statement_actions)}
                \cup _normalize_actions(Tail(statements))

\* change_summary: the parts joined with ", "
change_summary(added, removed) ==
    LET summary_parts ==
            (IF added # <<>>
             THEN <<[text |-> "+actions", count |-> Len(added)]>>
             ELSE <<>>)
            \o (IF removed # <<>>
                THEN <<[text |-> "-actions", count |-> Len(removed)]>>
                ELSE <<>>)
    IN IF summary_parts = <<>>
       THEN <<[text |-> "No action-level changes detected", count |-> 0]>>
       ELSE summary_parts

\* compute_policy_diff(existing, proposed); existing is None or a policy
compute_policy_diff(existing, proposed) ==
    LET existing_actions ==
            IF existing # NoPolicy THEN _normalize_actions(existing.statement)
            ELSE {}
        proposed_actions == _normalize_actions(proposed.statement)
        added == sorted(proposed_actions \ existing_actions)
        removed == sorted(existing_actions \ proposed_actions)
    IN [existing_policy |-> existing, proposed_policy |-> proposed,
        added_actions |-> added, removed_actions |-> removed,
        change_summary |-> change_summary(added, removed)]

\* ------------------------------------------------------ diffed inputs
DiffActionPool == {S3Star, S3GetObject, IamPassRole}

DiffActionValues ==
    {Absent} \cup {Str(a) : a \in DiffActionPool}
    \cup {List(l) :
            l \in UNION {[1..n -> DiffActionPool] : n \in 0..MaxActions}}

DiffStatements ==
    {Statement("Allow", a, Str("*"), NoCondition) : a \in DiffActionValues}

DiffPolicies ==
    {[error |-> "", version |-> "2012-10-17", statement |-> s] :
        s \in UNION {{[i \in 1..n |-> IF i = k THEN f ELSE DenyStatement] :
                         k \in 1..n, f \in DiffStatements} :
                     n \in 0..MaxStatements}}

NoDiff == [added_actions |-> <<>>, removed_actions |-> <<>>]

\* a caller holds the live policy of the role, if any, and a proposal
InitDiff ==
    /\ now = 0
    /\ presets = ModulePresets
    /\ invocation = NoInvocation
    /\ rolePolicies = [r \in RoleNames |-> {BaselinePolicy}]
    /\ call = [p \in Calls |-> IdleCall]
    /\ approvals = [a \in RoleArns |-> <<>>]
    /\ run = IdleRun
    /\ sfn = IdleSfn
    /\ guard = IdleGuard
    /\ \E existing \in DiffPolicies \cup {NoPolicy}, proposed \in DiffPolicies :
         diff = [pc |-> "input", existing |-> existing,
                 proposed |-> proposed, result |-> NoDiff]

\* policy_diff = compute_policy_diff(existing_policy, proposed_policy)
DiffCompute ==
    /\ diff.pc = "input"
    /\ diff' = [diff EXCEPT !.pc = "computed",
                   !.result = compute_policy_diff(diff.existing, diff.proposed)]
    /\ UNCHANGED <<now, rolePolicies, call, approvals, run, sfn, guard, presets, invocation>>

NextDiff == DiffCompute

SpecDiff == InitDiff /\ [][NextDiff]_vars

\* ------------------------------------------------ two diffs side by side
\* policies that name the same actions in different ways: as a string or
\* a list, in one statement or two, under Allow or Deny, with other
\* resources and conditions
TransportOnly ==
    Condition([o \in {"Bool"} |-> {<<"aws:SecureTransport", "true">>}])

PairStatementLists ==
    {<<>>,
     <<Statement("Allow", Absent, Str("*"), NoCondition)>>,
     <<Statement("Deny", List(<<>>), Str("arn:a"), TransportOnly)>>,
     <<Statement("Allow", Str(S3GetObject), Str("*"), NoCondition)>>,
     <<Statement("Deny", List(<<S3GetObject>>), List(<<"arn:a">>),
                 TransportOnly)>>,
     <<Statement("Allow", Str(IamPassRole), Str("*"), NoCondition)>>,
     <<Statement("Allow", List(<<S3GetObject, IamPassRole>>), Str("*"),
                 NoCondition)>>,
     <<Statement("Deny", Str(IamPassRole), Str("arn:a"), NoCondition),
       Statement("Allow", Str(S3GetObject), Str("*"), TransportOnly)>>,
     <<Statement("Allow", List(<<IamPassRole, S3GetObject, S3GetObject>>),
                 Absent, NoCondition)>>,
     <<Statement("Allow", Str(S3Star), Str("*"), NoCondition)>>,
     <<Statement("Deny", List(<<S3Star>>), Str("arn:a"), NoCondition)>>}

PairPolicies ==
    {[error |-> "", version |-> "2012-10-17", statement |-> s] :
        s \in PairStatementLists}

\* two callers each hold a live policy, if any, and a proposal
InitDiffPair ==
    /\ now = 0
    /\ presets = ModulePresets
    /\ invocation = NoInvocation
    /\ rolePolicies = [r \in RoleNames |-> {BaselinePolicy}]
    /\ call = [p \in Calls |-> IdleCall]
    /\ approvals = [a \in RoleArns |-> <<>>]
    /\ run = IdleRun
    /\ sfn = IdleSfn
    /\ guard = IdleGuard
    /\ \E existing \in PairPolicies \cup {NoPolicy}, proposed \in PairPolicies,
          other_existing \in PairPolicies \cup {NoPolicy},
          other_proposed \in PairPolicies :
         diff = [pc |-> "input", existing |-> existing,
                 proposed |-> proposed, result |-> NoDiff,
                 other |-> [existing |-> other_existing,
                            proposed |-> other_proposed, result |-> NoDiff]]

\* the second caller's compute_policy_diff(existing_policy, proposed_policy)
DiffComputeOther ==
    /\ diff.pc = "computed"
    /\ "other" \in DOMAIN diff
    /\ diff' = [diff EXCEPT !.pc = "compared",
                   !.other.result =
                       compute_policy_diff(diff.other.existing,
                                           diff.other.proposed)]
    /\ UNCHANGED <<now, rolePolicies, call, approvals, run, sfn, guard, presets, invocation>>

NextDiffPair ==
    \/ DiffCompute
    \/ DiffComputeOther

SpecDiffPair == InitDiffPair /\ [][NextDiffPair]_vars

\* ------------------------------------------------- claims on the rollout
\* a call that went into orchestrate_rollout (the handler did not reject it)
Entered(p) == call[p].stage \in Stages
Ended(p) == call[p].pc = "done" /\ Entered(p)
RoleOf(p) == _role_name_from_arn(call[p].role_arn)
\* the error rate the collector reported, a health failure for the stage
Reported(p) == ~call[p].collected.raised /\ call[p].pc \in {"finally", "done"}
                 /\ call[p].attach_ok
ReportedRate(p) == metrics_get(call[p].collected.metrics, "error_rate", 0)

\* C1: a call whose attach succeeded makes exactly one attach and one detach
\* of the same trial policy, the detach after the collection and before the
\* call ends; a call whose attach failed calls neither collector nor detach.
C1_AttachCollectDetach ==
    \A p \in Calls :
        LET c == call[p]
            a == <<"attach", c.policy_name>>
            m == <<"collect", NoName>>
            d == <<"detach", c.policy_name>>
        IN  /\ c.pc = "collect" => c.log = <<a>>
            /\ c.pc = "finally" => c.log = <<a, m>>
            /\ (Ended(p) /\ c.attach_ok) => c.log = <<a, m, d>> /\ c.policy_name # NoName
            /\ (Ended(p) /\ ~c.attach_ok) => Len(c.log) = 1 /\ c.log[1][1] = "attach"

C1_Witness ==
    \E p \in Calls :
        /\ Ended(p) /\ call[p].attach_ok /\ call[p].collected.raised
        /\ Len(call[p].log) = 3 /\ call[p].log[3][1] = "detach"

\* C2 (as claimed): once a call has ended, by return or by raise, the trial
\* policy it attached is gone and the role's policies are what they were
\* before the call.
C2_TrialGoneAfterCall ==
    \A p \in Calls :
        (Ended(p) /\ call[p].attach_ok) =>
            /\ call[p].policy_name \notin rolePolicies[RoleOf(p)]
            /\ rolePolicies[RoleOf(p)] = call[p].before

HealthFailure(p) ==
    /\ Reported(p)
    /\ \/ call[p].stage = "sandbox" /\ ReportedRate(p) >= SandboxThreshold
       \/ call[p].stage = "canary" /\ ReportedRate(p) >= CanaryThreshold
       \/ call[p].stage = "target" /\ ReportedRate(p) >= TargetThreshold

\* C5: a health failure with attach and detach succeeding never raises: the
\* call returns an outcome with the requested stage and succeeded = false.
C5_HealthFailureReturns ==
    \A p \in Calls :
        (Ended(p) /\ HealthFailure(p) /\ call[p].detach_ok) =>
            /\ call[p].result.kind = "returned"
            /\ call[p].result.outcome.stage = call[p].stage
            /\ ~call[p].result.outcome.succeeded

C5_Witness ==
    \E p \in Calls :
        /\ Ended(p) /\ HealthFailure(p) /\ call[p].detach_ok
        /\ call[p].stage = "target" /\ ReportedRate(p) = 10000
        /\ call[p].result.kind = "returned"

\* C6: an attach or detach failure is raised as RolloutError and never
\* returned as an outcome, a health failure is only ever a returned outcome;
\* the Lambda answers 500 to the first and 200 with succeeded = false to the
\* second.
C6_FaultVersusHealth ==
    \A p \in Calls :
        Ended(p) =>
            /\ (~call[p].attach_ok \/ ~call[p].detach_ok) =>
                  /\ call[p].result = Raised("RolloutError")
                  /\ call[p].caller = "lambda" => call[p].response.statusCode = 500
            /\ call[p].result.kind = "returned" => call[p].attach_ok /\ call[p].detach_ok
            /\ (HealthFailure(p) /\ call[p].detach_ok) =>
                  /\ call[p].result.kind = "returned"
                  /\ ~call[p].result.outcome.succeeded
                  /\ call[p].caller = "lambda" =>
                        call[p].response = Response(200, TRUE, FALSE)

C6_Witness ==
    \E p \in Calls :
        /\ Ended(p) /\ call[p].caller = "lambda" /\ call[p].attach_ok /\ ~call[p].detach_ok
        /\ HealthFailure(p)
        /\ call[p].result = Raised("RolloutError")
        /\ call[p].response.statusCode = 500

\* C7 (as claimed): a dry-run call attaches nothing to the role and detaches
\* nothing from it.
C7_DryRunNoMutation ==
    \A p \in Calls :
        call[p].stage = "dry-run" =>
            /\ \A i \in 1..Len(call[p].log) : call[p].log[i][1] \notin {"attach", "detach"}
            /\ rolePolicies[RoleOf(p)] = call[p].before

\* ------------------------------------------- claims on orchestrator.run
\* C8 (as claimed): run calls orchestrate_rollout for canary or target only
\* after the approval lookup answered with an approved latest record.
C8_ApprovalBeforeCanaryTarget ==
    (call[1].caller = "run" /\ call[1].stage \in {"canary", "target"}) =>
        run.lookup = "approved"

\* ------------------------------------------------ claims on the workflow
Succeeded(payload) == payload.has_succeeded /\ payload.succeeded

\* C9: SandboxRollout starts only after CheckApproval answered approved,
\* CanaryRollout only after SandboxRollout answered succeeded, TargetRollout
\* only after CanaryRollout answered succeeded; no stage follows a
\* predecessor that answered succeeded = false.
C9_StagesGated ==
    LET h == sfn.history
    IN  /\ sfn.state = "SandboxRollout" =>
              /\ sfn.approvalStatus = ApprovalPayload(200, TRUE, TRUE)
              /\ h[Len(h)] = <<"CheckApproval", 200, TRUE, TRUE>>
        /\ sfn.state = "CanaryRollout" =>
              /\ Succeeded(sfn.sandboxOutcome)
              /\ h[Len(h)] = <<"SandboxRollout", 200, TRUE, TRUE>>
        /\ sfn.state = "TargetRollout" =>
              /\ Succeeded(sfn.canaryOutcome)
              /\ h[Len(h)] = <<"CanaryRollout", 200, TRUE, TRUE>>
        /\ call[1].pc # "idle" =>
              /\ sfn.state \in RolloutTasks
              /\ Entered(1) => call[1].stage = TaskStage(sfn.state)
        /\ \A i \in 1..Len(h) :
              /\ h[i][1] = "SandboxRollout" =>
                    i > 1 /\ h[i - 1] = <<"CheckApproval", 200, TRUE, TRUE>>
              /\ h[i][1] = "CanaryRollout" =>
                    i > 1 /\ h[i - 1] = <<"SandboxRollout", 200, TRUE, TRUE>>
              /\ h[i][1] = "TargetRollout" =>
                    i > 1 /\ h[i - 1] = <<"CanaryRollout", 200, TRUE, TRUE>>
              /\ (h[i][1] \in RolloutTasks /\ ~(h[i][3] /\ h[i][4])) =>
                    \A j \in (i + 1)..Len(h) : h[j][1] \notin RolloutTasks

C9_Witness ==
    /\ sfn.state = "TargetRollout"
    /\ call[1].pc = "collect" /\ call[1].stage = "target"
    /\ Len(sfn.history) >= 3

\* C10 (as claimed): the execution reaches Success only if the sandbox, the
\* canary and the target stage each answered succeeded = true.
C10_SuccessOnlyIfAllSucceeded ==
    sfn.state = "Success" =>
        /\ Succeeded(sfn.sandboxOutcome)
        /\ Succeeded(sfn.canaryOutcome)
        /\ Succeeded(sfn.targetOutcome)

\* ------------------------------------------------- guardrail claims
\* a first sanitization has returned
Sanitized == guard.pc \in {"sanitized", "resanitized"}

InputStatements == guard.policy.statement

OutputStatements == guard.first.policy.statement

IsWildcardAction(a) == a = Star \/ endswith(a, ColonStar)

HasViolation(violations, code, rule, idx) ==
    \E k \in 1..Len(violations) :
        /\ violations[k].code = code
        /\ violations[k].rule = rule
        /\ violations[k].idx = idx

\* C11: for every policy and ruleset, no statement of the sanitized
\* policy contains the action "*" or an action ending in ":*", also when
\* the same statement contains blocked actions that the next rule removes.
C11_NoWildcardAfterSanitize ==
    Sanitized =>
        \A i \in 1..Len(OutputStatements) :
            LET actions == _ensure_list(OutputStatements[i].Action)
            IN \A k \in 1..Len(actions) : ~IsWildcardAction(actions[k])

\* C12: for any number of blocked actions, no statement of the sanitized
\* policy contains a blocked action, and exactly one WILDCARD_ACTION
\* violation is emitted for each blocked action that was present.
C12_BlockedRemovedAndReported ==
    Sanitized =>
        \A i \in 1..Len(OutputStatements) :
            \A b \in 1..Len(guard.rules.blocked_actions) :
                LET blocked == guard.rules.blocked_actions[b]
                    reports ==
                        {k \in 1..Len(guard.first.violations) :
                            /\ guard.first.violations[k].code =
                                   WILDCARD_ACTION_VIOLATION
                            /\ guard.first.violations[k].rule = "blocked"
                            /\ guard.first.violations[k].idx = i - 1
                            /\ guard.first.violations[k].action = blocked}
                IN /\ ~InList(blocked,
                              _ensure_list(OutputStatements[i].Action))
                   /\ Cardinality(reports) =
                        IF InList(blocked,
                                  _ensure_list(InputStatements[i].Action))
                        THEN 1 ELSE 0

\* the keys a statement's Condition holds under an operator
ConditionKeys(statement, op) ==
    IF op \in DOMAIN statement.Condition.ops
    THEN {kv[1] : kv \in statement.Condition.ops[op]}
    ELSE {}

\* C13: with required conditions, every sanitized statement holds every
\* required operator/key pair, also when the statement already had the
\* operator with other keys; MISSING_CONDITION is emitted for each pair
\* that was absent, and a value already present is not overwritten.
C13_RequiredConditionsPresent ==
    Sanitized =>
        \A i \in 1..Len(OutputStatements) :
            \A r \in 1..Len(guard.rules.required_conditions) :
                LET op == guard.rules.required_conditions[r].key
                    pairs == guard.rules.required_conditions[r].value
                IN \A kv \in pairs :
                    /\ kv[1] \in ConditionKeys(OutputStatements[i], op)
                    /\ kv[1] \notin ConditionKeys(InputStatements[i], op)
                         => \E k \in 1..Len(guard.first.violations) :
                              /\ guard.first.violations[k].code =
                                     MISSING_CONDITION_VIOLATION
                              /\ guard.first.violations[k].idx = i - 1
                              /\ guard.first.violations[k].op = op
                    /\ kv[1] \in ConditionKeys(InputStatements[i], op)
                         => \A old \in InputStatements[i].Condition.ops[op] :
                              old[1] = kv[1] =>
                                old \in OutputStatements[i].Condition.ops[op]

\* C14: sanitizing a sanitized policy under the same ruleset returns the
\* same policy, and the second violation list holds nothing but
\* UNSUPPORTED_SERVICE entries.
C14_Idempotent ==
    guard.pc = "resanitized" =>
        /\ guard.second.policy = guard.first.policy
        /\ \A k \in 1..Len(guard.second.violations) :
             guard.second.violations[k].code = UNSUPPORTED_SERVICE_VIOLATION

\* service prefixes of the actions that carry one
ServicePrefixes(actions) ==
    {split_first(actions[i], ":") :
        i \in {k \in 1..Len(actions) : contains(actions[k], ":")}}

DisallowedServices ==
    {guard.rules.disallowed_services[i] :
        i \in 1..Len(guard.rules.disallowed_services)}

\* C15: UNSUPPORTED_SERVICE is emitted for a statement exactly when the
\* service prefixes of the actions remaining after wildcard and blocked
\* removal meet the disallowed prefixes; a statement whose only
\* disallowed-service actions were removed as blocked gets none, and the
\* rule removes no action.
C15_UnsupportedServiceOnRemaining ==
    Sanitized =>
        \A i \in 1..Len(OutputStatements) :
            LET before == _ensure_list(InputStatements[i].Action)
                remaining == _ensure_list(OutputStatements[i].Action)
            IN /\ HasViolation(guard.first.violations,
                               UNSUPPORTED_SERVICE_VIOLATION, "service", i - 1)
                    <=> ServicePrefixes(remaining) \cap DisallowedServices # {}
               /\ \A k \in 1..Len(before) :
                    (/\ ~IsWildcardAction(before[k])
                     /\ ~InList(before[k], guard.rules.blocked_actions))
                        => InList(before[k], remaining)

ExplicitResources(resources) ==
    LET NotStar(r) == r # "*" IN SelectSeq(resources, NotStar)

\* C16: "*" is dropped from a resource list exactly when the input list
\* held "*" together with at least one explicit resource; a list of only
\* "*" entries is kept and never becomes empty; explicit resources keep
\* their order; the rule emits no violation.
C16_ResourceWildcardRule ==
    Sanitized =>
        /\ \A i \in 1..Len(OutputStatements) :
            LET before == _ensure_list(InputStatements[i].Resource)
                after == _ensure_list(OutputStatements[i].Resource)
                mixed == InList("*", before) /\ ExplicitResources(before) # <<>>
            IN /\ mixed => after = ExplicitResources(before)
               /\ ~mixed => after = before
               /\ before # <<>> => after # <<>>
        /\ \A k \in 1..Len(guard.first.violations) :
             guard.first.violations[k].field # "Resource"

\* C17: sanitization keeps the statement sequence: the sanitized policy
\* has the input's number of statements in the input's order, and a
\* statement whose action list ends empty stays in the policy.
C17_StatementsPreserved ==
    Sanitized =>
        /\ Len(OutputStatements) = Len(InputStatements)
        /\ \A i \in 1..Len(InputStatements) :
             /\ i <= Len(OutputStatements)
             /\ OutputStatements[i].Effect = InputStatements[i].Effect
             /\ ExplicitResources(_ensure_list(OutputStatements[i].Resource))
                  = ExplicitResources(_ensure_list(InputStatements[i].Resource))

\* two statements of different Effect were sanitized and the first one's
\* action list ended empty
C17_Witness ==
    /\ Sanitized
    /\ Len(InputStatements) = 2
    /\ InputStatements[1].Effect # InputStatements[2].Effect
    /\ InputStatements[1].Action = List(<<Star>>)
    /\ Len(OutputStatements) = 2
    /\ OutputStatements[1].Action = List(<<>>)

RuleRank(v) ==
    CASE v.rule = "wildcard" -> 1
      [] v.rule = "blocked" -> 2
      [] v.rule = "service" -> 3
      [] v.rule = "condition" -> 4

ViolationCodes(violations) ==
    [k \in 1..Len(violations) |-> violations[k].code]

\* C18: violations come in statement index order and, within a
\* statement, in rule order wildcard, blocked, unsupported service,
\* missing condition. Scenario A: the statement {Action "*", Resource "*"}
\* under the rules of orchestrator.run yields exactly
\* [WILDCARD_ACTION, MISSING_CONDITION], an empty Action list and the
\* injected condition.
C18_ViolationOrder ==
    Sanitized =>
        /\ \A j, k \in 1..Len(guard.first.violations) :
             j < k =>
                LET a == guard.first.violations[j]
                    b == guard.first.violations[k]
                IN \/ a.idx < b.idx
                   \/ a.idx = b.idx /\ RuleRank(a) <= RuleRank(b)
        /\ (InputStatements = <<ScenarioAStatement>> /\ guard.rules = RunRules)
             => /\ ViolationCodes(guard.first.violations) =
                     <<WILDCARD_ACTION_VIOLATION, MISSING_CONDITION_VIOLATION>>
                /\ OutputStatements[1].Action = List(<<>>)
                /\ OutputStatements[1].Resource = Str("*")
                /\ OutputStatements[1].Condition =
                     Condition([o \in {"StringEquals"} |->
                                   RegionCondition.value])

\* Scenario A was sanitized
C18_Witness ==
    /\ Sanitized
    /\ InputStatements = <<ScenarioAStatement>>
    /\ guard.rules = RunRules
    /\ Len(guard.first.violations) = 2

\* C19: a policy with a statement lacking "Effect" is rejected as a
\* caller-input error before sanitization; sanitize never returns a
\* result for it.
C19_MissingEffectRejected ==
    (\E i \in 1..Len(guard.payload.Statement) :
        guard.payload.Statement[i].Effect = "absent")
        => guard.pc \in {"payload", "rejected"}

\* ------------------------------------------------------- diff claims
\* actions(p): the actions named by the statements of p, none for an
\* absent policy
ActionsOfPolicy(policy) ==
    IF policy = NoPolicy THEN {}
    ELSE UNION {{_ensure_list(policy.statement[i].Action)[k] :
                    k \in 1..Len(_ensure_list(policy.statement[i].Action))} :
                i \in 1..Len(policy.statement)}

Members(list) == {list[i] : i \in 1..Len(list)}

Ascending(list) ==
    \A i, j \in 1..Len(list) : i < j => str_lt(list[i], list[j])

\* C20: compute_policy_diff returns added = actions(proposed) minus
\* actions(existing) and removed = actions(existing) minus
\* actions(proposed), an absent existing policy counting as empty; so
\* diff(p, p) has both lists empty, diff(null, p) has added = actions(p)
\* and removed empty, and the lists are disjoint, duplicate-free and
\* ascending.
C20_DiffIsSetDifference ==
    diff.pc = "computed" =>
        LET added == diff.result.added_actions
            removed == diff.result.removed_actions
        IN /\ Members(added) =
                ActionsOfPolicy(diff.proposed) \ ActionsOfPolicy(diff.existing)
           /\ Members(removed) =
                ActionsOfPolicy(diff.existing) \ ActionsOfPolicy(diff.proposed)
           /\ diff.existing = diff.proposed
                => added = <<>> /\ removed = <<>>
           /\ diff.existing = NoPolicy
                => /\ Members(added) = ActionsOfPolicy(diff.proposed)
                   /\ removed = <<>>
           /\ Members(added) \cap Members(removed) = {}
           /\ Len(added) = Cardinality(Members(added))
           /\ Len(removed) = Cardinality(Members(removed))
           /\ Ascending(added)
           /\ Ascending(removed)

\* a diff with two added actions and one removed action was computed
C20_Witness ==
    /\ diff.pc = "computed"
    /\ diff.existing # NoPolicy
    /\ Len(diff.result.added_actions) = 2
    /\ Len(diff.result.removed_actions) = 1

\* C21: the diff depends only on the two policies' flattened action
\* sets: two pairs of policies with the same action sets get the same
\* added actions, removed actions and summary, whatever the statements'
\* Effect, Resource and Condition, however the actions are split across
\* statements, and whether an action is a bare string or a one-element
\* list.
C21_DiffDependsOnActionSets ==
    (/\ diff.pc = "compared"
     /\ ActionsOfPolicy(diff.existing) = ActionsOfPolicy(diff.other.existing)
     /\ ActionsOfPolicy(diff.proposed) = ActionsOfPolicy(diff.other.proposed))
        => /\ diff.result.added_actions = diff.other.result.added_actions
           /\ diff.result.removed_actions = diff.other.result.removed_actions
           /\ diff.result.change_summary = diff.other.result.change_summary

\* two diffs with actions on both sides were compared; the pairs name the
\* same actions, one under Allow as a list, the other split over a Deny
\* and an Allow statement as strings, and one existing policy writes as a
\* string what the other writes as a list
C21_Witness ==
    /\ diff.pc = "compared"
    /\ Len(diff.proposed.statement) = 1
    /\ Len(diff.other.proposed.statement) = 2
    /\ ActionsOfPolicy(diff.proposed) = ActionsOfPolicy(diff.other.proposed)
    /\ diff.existing # NoPolicy
    /\ diff.other.existing # NoPolicy
    /\ diff.existing # diff.other.existing
    /\ ActionsOfPolicy(diff.existing) = ActionsOfPolicy(diff.other.existing)
    /\ Len(diff.existing.statement) = 1
    /\ Len(diff.other.existing.statement) = 1
    /\ diff.existing.statement[1].Action.kind = "str"
    /\ diff.other.existing.statement[1].Action.kind = "list"
    /\ diff.result.added_actions # <<>>
    /\ diff.result.removed_actions # <<>>

\* ----------------------------------------------------- overlapping calls
\* no other call has worked on the role of call p
OnlyCallOnItsRole(p) ==
    \A q \in Calls \ {p} :
        call[q].pc = "idle" \/ call[q].role_arn # call[p].role_arn

\* the trial policy of call p is attached and not yet detached by p
HoldsTrialPolicy(p) ==
    \/ call[p].pc \in {"collect", "finally"}
    \/ call[p].pc = "done" /\ call[p].attach_ok /\ ~call[p].detach_ok

\* the two calls were inside orchestrate_rollout at the same time
Overlapped(p, q) == q \in call[p].peers \/ p \in call[q].peers

\* C22: for any interleaving of calls on different identities, each call
\* detaches exactly the trial policy it attached to its own identity,
\* never touches another identity's policies, and returns the outcome it
\* would return alone.
C22_DifferentIdentitiesIsolated ==
    \A p \in Calls :
        (call[p].pc # "idle" /\ OnlyCallOnItsRole(p)) =>
            LET c == call[p]
                role_name == _role_name_from_arn(c.role_arn)
            IN /\ rolePolicies[role_name] =
                    c.before \cup (IF HoldsTrialPolicy(p) THEN {c.policy_name}
                                   ELSE {})
               /\ c.pc = "done" =>
                    c.result = IF c.attach_ok /\ c.detach_ok
                               THEN try_block(c.stage, c.collected)
                               ELSE Raised("RolloutError")

\* a call on one role has detached its policy and returned success while
\* a call on the other role, started in the same second under the same
\* policy name, is still observing
C22_Witness ==
    \E p, q \in Calls :
        /\ call[p].pc = "done"
        /\ call[p].detach_ok
        /\ call[p].result.kind = "returned"
        /\ call[p].result.outcome.succeeded
        /\ call[q].pc = "collect"
        /\ call[q].role_arn # call[p].role_arn
        /\ call[q].policy_name = call[p].policy_name
        /\ Overlapped(p, q)

\* C23: every trial policy gets a unique name: no two calls on the same
\* identity obtain the same trial-policy name, also when they start
\* within the same clock second.
C23_UniqueTrialPolicyNames ==
    \A p, q \in Calls :
        (/\ p # q
         /\ call[p].attach_ok
         /\ call[q].attach_ok
         /\ call[p].role_arn = call[q].role_arn)
            => call[p].policy_name # call[q].policy_name

\* C24: two overlapping calls on the same identity are unsafe: under one
\* trial-policy name, one call's detach removes the policy that the other
\* call still observes, and the other call's detach then fails; the trial
\* policy of a running call is missing only in this case, so serialized
\* calls never reach it.
C24_RaceOnlyWhenOverlapping ==
    \A p \in Calls :
        (/\ call[p].pc \in {"collect", "finally"}
         /\ call[p].policy_name
               \notin rolePolicies[_role_name_from_arn(call[p].role_arn)])
            => \E q \in Calls \ {p} :
                   /\ call[q].role_arn = call[p].role_arn
                   /\ call[q].policy_name = call[p].policy_name
                   /\ call[q].detach_ok
                   /\ Overlapped(p, q)

\* a call is still observing while its trial policy is gone, detached by
\* the overlapping call on the same role
C24_Witness ==
    \E p, q \in Calls :
        /\ p # q
        /\ call[p].pc = "collect"
        /\ call[p].policy_name
              \notin rolePolicies[_role_name_from_arn(call[p].role_arn)]
        /\ call[q].pc = "done"
        /\ call[q].detach_ok
        /\ call[q].role_arn = call[p].role_arn
        /\ call[q].policy_name = call[p].policy_name
        /\ Overlapped(p, q)

\* ------------------------------------------- retries and exit statuses
\* how often call p has made the collaborator call `what`
Attempts(p, what) ==
    Cardinality({i \in 1..Len(call[p].log) : call[p].log[i][1] = what})

\* C25: attach, metrics collection and detach are each retried on a
\* failure, with three attempts at most: a fault of one of them is
\* reported only after three attempts of that call.
C25_RetriedBeforeFault ==
    \A p \in Calls :
        Ended(p) =>
            /\ (Attempts(p, "attach") > 0 /\ ~call[p].attach_ok)
                  => Attempts(p, "attach") = 3
            /\ call[p].collected.raised => Attempts(p, "collect") = 3
            /\ (call[p].attach_ok /\ ~call[p].detach_ok)
                  => Attempts(p, "detach") = 3

\* C26: run reports failure whenever the rollout stage it executed did
\* not succeed: a non-zero status when orchestrate_rollout raises
\* RolloutError and when it returns succeeded = false, status 0 after a
\* rollout only when the outcome has succeeded = true.
C26_RunReportsStageFailure ==
    (run.pc = "exited" /\ call[1].caller = "run" /\ call[1].pc = "done") =>
        (run.exit = 0 <=>
            /\ call[1].result.kind = "returned"
            /\ call[1].result.outcome.succeeded)

\* the CloudWatch query of call p raised or answered without datapoints
MetricsUnavailable(p) ==
    \/ call[p].cloudwatch.kind = "error"
    \/ call[p].cloudwatch.kind = "ok" /\ call[p].cloudwatch.datapoints = <<>>

\* C28: in the rollout Lambda an unavailable metrics source never fails a
\* stage: when the CloudWatch query raises or answers without datapoints
\* the collector yields error_rate = 0.0 instead of raising, and the
\* handler answers succeeded = true for sandbox, canary and target
\* provided attach and detach succeed.
C28_LambdaCollectorFailsOpen ==
    \A p \in Calls :
        (call[p].caller = "lambda" /\ MetricsUnavailable(p)) =>
            /\ call[p].collected = Collected({<<"error_rate", 0>>})
            /\ (/\ call[p].pc = "done"
                /\ call[p].stage \in {"sandbox", "canary", "target"}
                /\ call[p].attach_ok
                /\ call[p].detach_ok)
                  => call[p].response = Response(200, TRUE, TRUE)

\* a target stage of the Lambda ended with attach and detach done after a
\* CloudWatch query that raised
C28_Witness ==
    \E p \in Calls :
        /\ call[p].caller = "lambda"
        /\ call[p].pc = "done"
        /\ call[p].stage = "target"
        /\ call[p].cloudwatch.kind = "error"
        /\ call[p].attach_ok
        /\ call[p].detach_ok

\* the most recent record of the proposal exists and approves
MostRecentApproves(items) ==
    /\ Len(items) > 0
    /\ \A i \in 1..Len(items) : items[i].timestamp <= items[Len(items)].timestamp
    /\ items[Len(items)].is_record
    /\ items[Len(items)].approved

\* the step in which run consults the approval gate
GateStep ==
    /\ run.pc = "approval"
    /\ run'.pc # "approval"
    /\ run.args.approval_table

\* C30: the approval gate fails closed and follows the latest record:
\* request_human_approval returns true iff the most recent record of the
\* proposal has approved = true; a missing record, a rejection after an
\* earlier approval and a lookup error each give false, and run then
\* exits with status 2 without executing a rollout stage.
C30_GateFollowsLatestRecord ==
    [][GateStep =>
          IF MostRecentApproves(approvals[run.args.resource_arn])
             /\ run'.lookup # "ApprovalStoreError"
          THEN run'.pc = "rollout"
          ELSE /\ run'.pc = "exited"
               /\ run'.exit = 2
               /\ \A p \in Calls : call'[p].pc = "idle"]_vars

\* run was refused with status 2 on a rejection that followed an approval
C30_Witness ==
    /\ run.pc = "exited"
    /\ run.exit = 2
    /\ run.lookup = "rejected"
    /\ Len(approvals[run.args.resource_arn]) = 2
    /\ approvals[run.args.resource_arn][1].approved
    /\ ~approvals[run.args.resource_arn][2].approved
    /\ \A p \in Calls : call[p].pc = "idle"

OwnRuleset(inv) ==
    LET name == IF inv.fn = "run_analyze"
                THEN (IF inv.preset \in DOMAIN GUARDRAIL_PRESETS
                      THEN inv.preset ELSE "prod")
                ELSE LET given == lower(IF inv.preset = "" THEN "sandbox"
                                        ELSE inv.preset)
                     IN IF given \in DOMAIN GUARDRAIL_PRESETS
                        THEN given ELSE "sandbox"
        base == GUARDRAIL_PRESETS[name]
    IN [blocked_actions |->
            base.blocked_actions \o ExtraOf(inv.extras, "blocked_actions", <<>>),
        required_conditions |->
            dict_update(base.required_conditions,
                        ExtraOf(inv.extras, "required_conditions", <<>>)),
        disallowed_services |->
            base.disallowed_services
                \o ExtraOf(inv.extras, "disallowed_services", <<>>)]

\* C27: guardrail configuration is not process-wide mutable state: after
\* any sequence of run_analyze and _enforce invocations with extra
\* exclusions the presets none, sandbox and prod are as written, and the
\* ruleset an invocation enforces depends on its own arguments only.
C27_PresetsUnchanged ==
    /\ presets = ModulePresets
    /\ invocation.enforced => invocation.used = OwnRuleset(invocation)

====
